---- MODULE Spec2Model ----
(***************************************************************************)
(* A model of django-weebly's synchronisation code:                        *)
(*   util.py     update_list_of / update_object_from_data and the value    *)
(*               transforms,                                               *)
(*   refresh.py  update_from_data, refresh_site, refresh_pages,            *)
(*               refresh_store_products and refresh_store_categories,      *)
(*   models.py   WeeblyAuth's request / pagination / response handling,    *)
(*               WeeblyPaymentNotification's pre_save, notify and          *)
(*               notify_unnotified.                                        *)
(*                                                                         *)
(* Conventions.  A Python str is a sequence of tokens (a token is one or   *)
(* more characters, so "&amp;" is <<"&", "amp;">>); Python None in a       *)
(* str-valued place is the one-token sequence None; an optional integer    *)
(* or an optional reference is <<>> (None) or a one-element tuple.  A      *)
(* Python dict with optional keys ({'error': ..}, {'changes': ..}) is a    *)
(* function whose DOMAIN is the set of keys present.                       *)
(***************************************************************************)
EXTENDS Integers, Sequences, FiniteSets, TLC

\* ------------------------------------------------------------- bounds
\* longest remote list handed to update_list_of in one call
MaxLen == 2

\* ------------------------------------------------------------ domains
Sites == {1, 2}
IdStrings == {<<"1">>, <<"2">>}

None == <<"None">>

\* Python truthiness of a str-or-None value: `not val`
falsy(val) == val = None \/ val = <<>>

\* int('<digit>') for the numerals the remote data uses
int(s) ==
    CASE s = <<"1">> -> 1
      [] s = <<"2">> -> 2
      [] s = <<"3">> -> 3
      [] s = <<"7">> -> 7

\* F of the value of x.  TLC evaluates an operator's argument wherever the
\* operator's body uses it; a value drawn from a set is evaluated once.
With(x, F(_)) == CHOOSE out \in {F(v) : v \in {x}} : TRUE

\* `sub in s` for Python strings
Contains(s, sub) ==
    \E i \in 1..(Len(s) - Len(sub) + 1) : SubSeq(s, i, i + Len(sub) - 1) = sub

\* str.replace(old, new): left to right, non overlapping
RECURSIVE replace(_, _, _)
replace(s, old, new) ==
    IF Len(s) < Len(old) THEN s
    ELSE IF SubSeq(s, 1, Len(old)) = old
         THEN With(SubSeq(s, Len(old) + 1, Len(s)),
                   LAMBDA rest : new \o replace(rest, old, new))
         ELSE With(Tail(s), LAMBDA rest : <<Head(s)>> \o replace(rest, old, new))

\* html.unescape, for the one entity the sample data holds
html_unescape(val) == With(val, LAMBDA v : replace(v, <<"&", "amp;">>, <<"&">>))

none_to_empty(val) == IF ~falsy(val) THEN val ELSE <<>>

unescape_func(val) ==
    IF falsy(val) THEN val
    ELSE html_unescape(replace(val, <<"&", "amp;", "amp;">>, <<"&">>))

unescape_func_not_null(val) == unescape_func(none_to_empty(val))

\* marto_python.url.is_absolute: the url names a scheme and host
is_absolute(url) == Contains(url, <<":", "/", "/">>)

url_func(url) ==
    IF url = None THEN None
    ELSE IF is_absolute(url) THEN url
    ELSE (IF Len(url) = 0 \/ url[1] # "/" THEN <<"/">> ELSE <<>>) \o url

\* marto_python.strings.as_int: None stays None, a numeral becomes an int
as_int(val) == IF falsy(val) THEN <<>> ELSE <<int(val)>>

\* ------------------------------------------------- the database tables
(***************************************************************************)
(* A table is a set of rows.  WeeblyPage.page_id is unique over the whole  *)
(* table; WeeblyStoreProduct and WeeblyStoreCategory are unique on         *)
(* (site, id).  A category's parent_category is a foreign key with         *)
(* on_delete=CASCADE; since (site, category_id) is a key of the table and  *)
(* a cascading delete leaves no dangling reference, the reference is held  *)
(* as the parent's key <<site, category_id>>.                              *)
(***************************************************************************)
WeeblyPage(site) ==
    [site |-> site, page_id |-> 0, title |-> <<>>, page_url |-> None,
     hidden |-> FALSE, page_order |-> 0, parent_id |-> <<>>]

WeeblyStoreProduct(site) ==
    [site |-> site, product_id |-> 0, name |-> <<>>, description |-> None,
     url |-> None]

WeeblyStoreCategory(site) ==
    [site |-> site, category_id |-> 0, name |-> <<>>, parent_category |-> <<>>]

\* the model class behind new_elem_func, by the object_name of the call
new_elem_func(object_name, site) ==
    CASE object_name = "page" -> WeeblyPage(site)
      [] object_name = "store product" -> WeeblyStoreProduct(site)
      [] object_name = "store category" -> WeeblyStoreCategory(site)

\* site.pages / site.store_products / site.store_categories
related_manager(rows, site) == {r \in rows : r.site = site}

\* related_manager.filter(**{id_property_elem: data_id}).first(): <<>> or <<row>>
filter_first(rows, site, id_property_elem, data_id) ==
    LET qs == {r \in related_manager(rows, site) : r[id_property_elem] = data_id}
    IN  IF qs = {} THEN <<>> ELSE <<CHOOSE r \in qs : TRUE>>

\* whether INSERTing elem violates the table's unique constraint
IntegrityError(object_name, rows, elem) ==
    CASE object_name = "page" ->
            \E r \in rows : r.page_id = elem.page_id
      [] object_name = "store product" ->
            \E r \in rows : r.site = elem.site /\ r.product_id = elem.product_id
      [] object_name = "store category" ->
            \E r \in rows : r.site = elem.site /\ r.category_id = elem.category_id

\* the rows a delete of `gone` takes with it through parent_category
RECURSIVE cascade(_, _)
cascade(rows, gone) ==
    LET more == {r \in rows \ gone :
                    \E g \in gone : r.parent_category = <<g.site, g.category_id>>}
    IN  IF more = {} THEN gone ELSE cascade(rows, gone \cup more)

\* a delete that is never issued
delete_nothing(object_name, rows, elem) == rows

\* original_elem.delete()
delete(object_name, rows, elem) ==
    IF object_name = "store category"
    THEN rows \ cascade(rows, {elem} \cap rows)
    ELSE rows \ {elem}

\* -------------------------------------------------- refresh.py closures
\* a lookup of the parent by category_id alone, whatever site holds it
parent_category_func_any_site(site, rows, parent_category_id) ==
    IF falsy(parent_category_id) THEN [val |-> <<>>, missing |-> <<>>]
    ELSE LET pid == int(parent_category_id)
             parent_cat == {r \in rows : r.category_id = pid}
         IN  IF parent_cat # {}
             THEN [val |-> <<<<(CHOOSE r \in parent_cat : TRUE).site, pid>>>>,
                   missing |-> <<>>]
             ELSE [val |-> <<>>, missing |-> <<pid>>]

\* parent_category_func of refresh_store_categories: the value it returns
\* and what it appends to missing_cats
parent_category_func(site, rows, parent_category_id) ==
    IF falsy(parent_category_id) THEN [val |-> <<>>, missing |-> <<>>]
    ELSE LET pid == int(parent_category_id)
             parent_cat == {r \in rows : r.site = site /\ r.category_id = pid}
         IN  IF parent_cat # {}
             THEN [val |-> <<<<site, pid>>>>, missing |-> <<>>]
             ELSE [val |-> <<>>, missing |-> <<pid>>]

\* transform_func(data_val), by the function's name; "None" is no transform
transform_func(fn, data_val, site, rows) ==
    CASE fn = "None" -> [val |-> data_val, missing |-> <<>>]
      [] fn = "unescape_func_not_null" ->
            [val |-> unescape_func_not_null(data_val), missing |-> <<>>]
      [] fn = "url_func" -> [val |-> url_func(data_val), missing |-> <<>>]
      [] fn = "as_int" -> [val |-> as_int(data_val), missing |-> <<>>]
      [] fn = "parent_category_func" -> parent_category_func(site, rows, data_val)

\* ---------------------------------------------------------- util.py
\* a turn that reports the change of the property it looked at last
update_property_last_change(acc, obj_property, t) ==
    [obj |-> [acc.obj EXCEPT ![obj_property] = t.val],
     save |-> acc.obj[obj_property] # t.val,
     missing |-> acc.missing \o t.missing]

\* one turn of update_object_from_data's loop: t is the transformed data value
update_property(acc, obj_property, t) ==
    [obj |-> IF acc.obj[obj_property] # t.val
             THEN [acc.obj EXCEPT ![obj_property] = t.val] ELSE acc.obj,
     save |-> acc.save \/ acc.obj[obj_property] # t.val,
     missing |-> acc.missing \o t.missing]

RECURSIVE update_properties(_, _, _, _, _, _)
update_properties(acc, properties_mapping, i, data, site, rows) ==
    IF i > Len(properties_mapping) THEN acc
    ELSE With(transform_func(properties_mapping[i][3],
                             data[properties_mapping[i][1]], site, rows),
              LAMBDA t :
                With(update_property(acc, properties_mapping[i][2], t),
                     LAMBDA a : update_properties(a, properties_mapping, i + 1,
                                                  data, site, rows)))

\* update_object_from_data: the object updated, whether it must be saved, and
\* what the transforms appended to missing_cats on the way
update_object_from_data(obj, properties_mapping, data, site, rows) ==
    update_properties([obj |-> obj, save |-> FALSE, missing |-> <<>>],
                      properties_mapping, 1, data, site, rows)

\* an entry of a call's record of what it did to the world outside it
Event(ev, id) == [ev |-> ev, id |-> id]

\* the keys of data_elems, in the OrderedDict's order (first occurrence)
RECURSIVE data_keys(_, _)
data_keys(json_data, id_property_data) ==
    IF json_data = <<>> THEN <<>>
    ELSE With(data_keys(SubSeq(json_data, 1, Len(json_data) - 1),
                        id_property_data),
              LAMBDA earlier :
                IF \E i \in 1..(Len(json_data) - 1) :
                      int(json_data[i][id_property_data])
                          = int(json_data[Len(json_data)][id_property_data])
                THEN earlier
                ELSE Append(earlier,
                            int(json_data[Len(json_data)][id_property_data])))

\* data_elems keeping the first element of an id instead of the last
data_elems_first(json_data, id_property_data, data_id) ==
    json_data[CHOOSE i \in 1..Len(json_data) :
                /\ int(json_data[i][id_property_data]) = data_id
                /\ \A j \in 1..(i - 1) :
                      int(json_data[j][id_property_data]) # data_id]

\* data_elems[data_id]: a later element of json_data overwrites an earlier one
data_elems(json_data, id_property_data, data_id) ==
    json_data[CHOOSE i \in 1..Len(json_data) :
                /\ int(json_data[i][id_property_data]) = data_id
                /\ \A j \in (i + 1)..Len(json_data) :
                      int(json_data[j][id_property_data]) # data_id]

\* original_elems: one row per id of related_manager.all()
original_elems(rows, site, id_property_elem) ==
    [elem_id \in {r[id_property_elem] : r \in related_manager(rows, site)} |->
        CHOOSE r \in related_manager(rows, site) : r[id_property_elem] = elem_id]

\* the ids of a set, ascending: the order related_manager.all() is walked in
RECURSIVE ascending(_)
ascending(ids) ==
    IF ids = {} THEN <<>>
    ELSE With(CHOOSE i \in ids : \A j \in ids : i <= j,
              LAMBDA least : <<least>> \o ascending(ids \ {least}))

\* util.py 59-63: delete what the remote list no longer holds
RECURSIVE delete_loop(_, _, _, _, _, _)
delete_loop(st, object_name, originals, order, i, keys) ==
    IF i > Len(order) THEN st
    ELSE With(IF \A k \in 1..Len(keys) : keys[k] # order[i]
              THEN [st EXCEPT !.changes = TRUE,
                              !.log = Append(@, Event("delete", order[i])),
                              !.rows = delete(object_name, @, originals[order[i]])]
              ELSE st,
              LAMBDA s : delete_loop(s, object_name, originals, order, i + 1, keys))

\* util.py 99-106: u is what update_object_from_data(elem, ..) gave
save_elem(st, elem, is_new, elem_id, u) ==
    IF u.save \/ is_new
    THEN [st EXCEPT !.changes = TRUE,
                    !.rows = (@ \ {elem}) \cup {u.obj},
                    !.log = Append(@, Event("save", elem_id)),
                    !.missing = @ \o u.missing]
    ELSE [st EXCEPT !.missing = @ \o u.missing]

\* util.py 98-106: update elem from the data and save it when needed
update_and_save(st, elem, is_new, site, id_property_elem, properties_mapping, data_elem) ==
    With(update_object_from_data(elem, properties_mapping, data_elem, site,
                                 st.rows),
         LAMBDA u : save_elem(st, elem, is_new, elem[id_property_elem], u))

\* the skip without its report
integrity_error_unreported(st, data_id) == st

\* util.py 85-97: IntegrityError and no such element: report it and go on
integrity_error_and_not_exists(st, data_id) ==
    [st EXCEPT !.log = Append(@, Event("integrity error and not exists", data_id))]

\* the except branch without its `is_new = False`
except_IntegrityError_still_new(st, site, id_property_elem, properties_mapping, data_id, data_elem, again) ==
    IF again # <<>>
    THEN update_and_save(st, again[1], TRUE, site, id_property_elem,
                         properties_mapping, data_elem)
    ELSE integrity_error_and_not_exists(st, data_id)

\* util.py 78-97: `again` is the second filter(..).first()
except_IntegrityError(st, site, id_property_elem, properties_mapping, data_id, data_elem, again) ==
    IF again # <<>>
    THEN update_and_save(st, again[1], FALSE, site, id_property_elem,
                         properties_mapping, data_elem)
    ELSE integrity_error_and_not_exists(st, data_id)

\* util.py 74-106 for a new element: u is what update_object_from_data made of
\* new_elem_func(), rows1 the table at the time of elem.save()
save_new_elem(st, site, object_name, id_property_elem, properties_mapping, data_id, data_elem, rows1, u) ==
    IF ~IntegrityError(object_name, rows1, u.obj)
    THEN With([st EXCEPT !.rows = rows1 \cup {u.obj},
                         !.changes = TRUE,
                         !.missing = @ \o u.missing,
                         !.log = @ \o <<Event("creating", data_id),
                                        Event("insert", data_id)>>],
              LAMBDA s : update_and_save(s, u.obj, TRUE, site, id_property_elem,
                                         properties_mapping, data_elem))
    ELSE With([st EXCEPT !.rows = rows1,
                         !.missing = @ \o u.missing,
                         !.log = @ \o <<Event("creating", data_id),
                                        Event("IntegrityError", data_id)>>],
              LAMBDA s : except_IntegrityError(
                            s, site, id_property_elem, properties_mapping,
                            data_id, data_elem,
                            filter_first(rows1, site, id_property_elem, data_id)))

\* the table once another thread has had its turn: `race` is <<>>, or <<row>>
\* for a row that thread inserts (an admin action runs in its own thread)
\* between this thread's filter (67) and its save (75) of the same id
after_race(object_name, rows, id_property_elem, data_id, race) ==
    IF /\ race # <<>>
       /\ race[1][id_property_elem] = data_id
       /\ ~IntegrityError(object_name, rows, race[1])
    THEN rows \cup {race[1]} ELSE rows

\* util.py 67-106: `found` is the first filter(..).first()
process_found(st, site, object_name, id_property_elem, properties_mapping, data_id, data_elem, race, found) ==
    IF found # <<>>
    THEN update_and_save(st, found[1], FALSE, site, id_property_elem,
                         properties_mapping, data_elem)
    ELSE With(<<after_race(object_name, st.rows, id_property_elem, data_id,
                           race),
                update_object_from_data(
                    [new_elem_func(object_name, site)
                        EXCEPT ![id_property_elem] = data_id],
                    properties_mapping, data_elem, site, st.rows)>>,
              LAMBDA a : save_new_elem(st, site, object_name, id_property_elem,
                                       properties_mapping, data_id, data_elem,
                                       a[1], a[2]))

\* util.py 65-106: one turn of the loop over data_elems
process_elem(st, site, object_name, id_property_elem, properties_mapping, data_id, data_elem, race) ==
    With(filter_first(st.rows, site, id_property_elem, data_id),
         LAMBDA found : process_found(st, site, object_name, id_property_elem,
                                      properties_mapping, data_id, data_elem,
                                      race, found))

RECURSIVE data_loop(_, _, _, _, _, _, _, _, _, _)
data_loop(st, site, json_data, object_name, id_property_elem, id_property_data, properties_mapping, keys, i, race) ==
    IF i > Len(keys) THEN st
    ELSE With(<<keys[i], data_elems(json_data, id_property_data, keys[i])>>,
              LAMBDA d :
                With(process_elem(st, site, object_name, id_property_elem,
                                  properties_mapping, d[1], d[2], race),
                     LAMBDA s : data_loop(s, site, json_data, object_name,
                                          id_property_elem, id_property_data,
                                          properties_mapping, keys, i + 1,
                                          race)))

\* util.py 107: what update_list_of hands back
list_result(st) ==
    [rows |-> st.rows, rv |-> [changes |-> st.changes], log |-> st.log,
     missing |-> st.missing]

\* update_list_of: the table afterwards, the dict returned, what was done
\* (from the logger.debug line of util.py 57 on), and what the transforms
\* appended to the caller's missing_cats
update_list_of(site, json_data, object_name, id_property_elem, id_property_data, rows, properties_mapping, race) ==
    With(<<original_elems(rows, site, id_property_elem),
           data_keys(json_data, id_property_data)>>,
         LAMBDA a :
           With(delete_loop([rows |-> rows, changes |-> FALSE,
                             log |-> <<Event("list update", site)>>,
                             missing |-> <<>>],
                            object_name, a[1], ascending(DOMAIN a[1]), 1, a[2]),
                LAMBDA s :
                  list_result(
                      data_loop(s, site, json_data, object_name, id_property_elem,
                                id_property_data, properties_mapping, a[2], 1,
                                race))))

\* ------------------------------------------------- models.py, WeeblyAuth
(***************************************************************************)
(* An HTTP response is [status_code, is_json, error, data]: is_json is     *)
(* whether resp.json() parses, error is <<>> or <<message>> for a body     *)
(* {"error": {"message": ..}}, data is the rest of the body (a list for a  *)
(* paginated resource).  RequestException stands for a request that raised *)
(* instead of answering.                                                   *)
(***************************************************************************)
RequestException == [status_code |-> 0, is_json |-> FALSE, error |-> <<>>,
                     data |-> <<>>]

UnknownApiKey == <<"Unknown", "api", "key">>

\* str(weebly_auth): user_<user_id>-site_<site_id>
AuthName == <<"user_1-site_1">>

\* a check that takes any error for the loss of the key
check_still_valid_any_error(is_valid, rv) == "error" \notin DOMAIN rv

\* check_still_valid(rv): the is_valid flag afterwards
check_still_valid(is_valid, rv) ==
    IF "error" \notin DOMAIN rv THEN TRUE
    ELSE IF Contains(rv.error, UnknownApiKey) THEN FALSE
    ELSE is_valid

\* a loop that looks at the first of the strings only
first_error_is_expected(errors, msg) ==
    errors # <<>> /\ Contains(msg, Head(errors))

\* the loop of __handle_response over expected_errors + ['Unknown api key']
RECURSIVE error_is_expected(_, _)
error_is_expected(errors, msg) ==
    IF errors = <<>> THEN FALSE
    ELSE IF Contains(msg, Head(errors)) THEN TRUE
    ELSE error_is_expected(Tail(errors), msg)

\* __handle_response: (rv, resp_json), the log record written, is_valid after
handle_response(is_valid, resp, action_name, expected_errors) ==
    IF ~resp.is_json
    THEN [rv |-> [error |-> <<"invalid JSON response">>], resp_json |-> <<>>,
          log |-> <<Event("logger.warning", 0)>>, is_valid |-> is_valid]
    ELSE IF resp.status_code = 200
    THEN [rv |-> <<>>, resp_json |-> resp.data,
          log |-> <<Event("logger.debug", 0)>>,
          is_valid |-> check_still_valid(is_valid, <<>>)]
    ELSE
      LET rv_error == IF resp.error # <<>>
                      THEN action_name \o <<" - ">> \o resp.error[1]
                      ELSE action_name
          msg == rv_error \o <<" - ">> \o AuthName
          level == IF error_is_expected(expected_errors \o <<UnknownApiKey>>, msg)
                   THEN "logger.warning" ELSE "logger.error"
          rv == [error |-> <<"Error ">> \o rv_error]
      IN  [rv |-> rv, resp_json |-> resp.data,
           log |-> IF resp.error # <<>> THEN <<Event(level, 0)>> ELSE <<>>,
           is_valid |-> check_still_valid(is_valid, rv)]

\* weebly_request: the request is made, then its response handled
weebly_request(is_valid, resp, action_name, expected_errors) ==
    IF resp = RequestException
    THEN [rv |-> [error |-> <<"RequestException">>], resp_json |-> <<>>,
          log |-> <<Event("logger.error", 0)>>, is_valid |-> is_valid]
    ELSE handle_response(is_valid, resp, action_name, expected_errors)

(***************************************************************************)
(* The remote side of a paginated resource: `world` is [remote, fail_at,   *)
(* failure]; the request for page fail_at (0: none) is answered by         *)
(* `failure`, every other one by the slice of `remote` that the request's  *)
(* own page and limit parameters name.                                     *)
(***************************************************************************)
serve(world, params) ==
    IF params.page = world.fail_at THEN world.failure
    ELSE LET first == (params.page - 1) * params.limit + 1
             last == IF params.page * params.limit < Len(world.remote)
                     THEN params.page * params.limit ELSE Len(world.remote)
         IN  [status_code |-> 200, is_json |-> TRUE, error |-> <<>>,
              data |-> SubSeq(world.remote, first, last)]

\* the `while True` of weebly_request_paginated, from page `page` on;
\* r is what weebly_request gave for that page
RECURSIVE paginated_loop(_, _, _, _, _, _, _, _)
\* a loop that returns what it has, without the error, when a request fails
paginated_page_error_dropped(world, action_name, expected_errors, limit_count, page, response_json, log, r) ==
    IF "error" \in DOMAIN r.rv \/ Len(r.resp_json) < limit_count
    THEN [rv |-> <<>>,
          response_json |-> IF "error" \in DOMAIN r.rv THEN response_json
                            ELSE response_json \o r.resp_json,
          log |-> log \o r.log, is_valid |-> r.is_valid]
    ELSE paginated_loop(r.is_valid, world, action_name, expected_errors,
                        limit_count, page + 1, response_json \o r.resp_json,
                        log \o r.log)

\* a loop that stops at the first page that is not longer than the limit
paginated_page_stop_when_full(world, action_name, expected_errors, limit_count, page, response_json, log, r) ==
    IF "error" \in DOMAIN r.rv
    THEN [rv |-> r.rv, response_json |-> response_json, log |-> log \o r.log,
          is_valid |-> r.is_valid]
    ELSE IF Len(r.resp_json) <= limit_count
    THEN [rv |-> <<>>, response_json |-> response_json \o r.resp_json,
          log |-> log \o r.log, is_valid |-> r.is_valid]
    ELSE paginated_loop(r.is_valid, world, action_name, expected_errors,
                        limit_count, page + 1, response_json \o r.resp_json,
                        log \o r.log)

\* a loop with a bound of its own: it gives up after the second page
paginated_page_two_pages(world, action_name, expected_errors, limit_count, page, response_json, log, r) ==
    IF "error" \in DOMAIN r.rv
    THEN [rv |-> r.rv, response_json |-> response_json, log |-> log \o r.log,
          is_valid |-> r.is_valid]
    ELSE IF Len(r.resp_json) < limit_count \/ page = 2
    THEN [rv |-> <<>>, response_json |-> response_json \o r.resp_json,
          log |-> log \o r.log, is_valid |-> r.is_valid]
    ELSE paginated_loop(r.is_valid, world, action_name, expected_errors,
                        limit_count, page + 1, response_json \o r.resp_json,
                        log \o r.log)

paginated_page(world, action_name, expected_errors, limit_count, page, response_json, log, r) ==
    IF "error" \in DOMAIN r.rv
    THEN [rv |-> r.rv, response_json |-> response_json, log |-> log \o r.log,
          is_valid |-> r.is_valid]
    ELSE IF Len(r.resp_json) < limit_count
    THEN [rv |-> <<>>, response_json |-> response_json \o r.resp_json,
          log |-> log \o r.log, is_valid |-> r.is_valid]
    ELSE paginated_loop(r.is_valid, world, action_name, expected_errors,
                        limit_count, page + 1, response_json \o r.resp_json,
                        log \o r.log)

paginated_loop(is_valid, world, action_name, expected_errors, limit_count, page, response_json, log) ==
    paginated_page(world, action_name, expected_errors, limit_count, page,
                   response_json,
                   Append(log, [ev |-> "request", id |-> page,
                                limit |-> limit_count]),
                   weebly_request(is_valid,
                                  serve(world, [limit |-> limit_count,
                                                page |-> page]),
                                  action_name, expected_errors))

weebly_request_paginated(is_valid, world, action_name, expected_errors, limit_count) ==
    paginated_loop(is_valid, world, action_name, expected_errors, limit_count,
                   1, <<>>, <<>>)

\* limit_count's default, 200 in the code, scaled to the model's lists
DefaultLimitCount == 2

\* ------------------------------------------------------- sample data
\* what the remote side may hold for a page, besides its page_id
RemotePageAttrs ==
    { [title |-> <<"a">>, page_url |-> <<"p">>, page_order |-> 1,
       parent_id |-> None],
      [title |-> None, page_url |-> <<"/", "p">>, page_order |-> 2,
       parent_id |-> <<"7">>] }

RemotePages ==
    { [page_id |-> i, title |-> a.title, page_url |-> a.page_url,
       page_order |-> a.page_order, parent_id |-> a.parent_id] :
         i \in IdStrings, a \in RemotePageAttrs }

\* what the remote side may hold for a store product, besides its product_id
RemoteProductAttrs ==
    { [name |-> <<"&", "amp;", "amp;", "a">>, url |-> <<"/", "p">>],
      [name |-> None, url |-> None] }

RemoteProducts ==
    { [product_id |-> i, name |-> a.name, url |-> a.url] :
         i \in IdStrings, a \in RemoteProductAttrs }

\* a remote category names no parent, one of the ids or an id no list holds
RemoteCategories ==
    { [category_id |-> i, name |-> <<"c", "&", "amp;", "d">>,
       parent_category_id |-> parent] :
         i \in IdStrings, parent \in {<<>>, <<"3">>} \cup IdStrings }

\* the lists of at most MaxLen elements of S
ListsOf(S) == UNION {[1..n -> S] : n \in 0..MaxLen}

\* the mapping refresh_pages_from_data passes
PagesMapping ==
    << <<"title", "title", "unescape_func_not_null">>,
       <<"page_url", "page_url", "url_func">>,
       <<"page_order", "page_order", "None">>,
       <<"parent_id", "parent_id", "as_int">> >>

\* the mapping refresh_store_products passes
ProductsMapping ==
    << <<"name", "name", "unescape_func_not_null">>,
       <<"url", "url", "None">> >>

\* the mapping refresh_store_categories passes
CategoriesMapping ==
    << <<"name", "name", "unescape_func_not_null">>,
       <<"parent_category_id", "parent_category", "parent_category_func">> >>

\* a product row as the same code, run by another thread on data, would insert it
ProductRowOf(site, data) ==
    update_object_from_data(
        [WeeblyStoreProduct(site) EXCEPT !.product_id = int(data.product_id)],
        ProductsMapping, data, site, {}).obj

\* a page row as the same code, run by another thread on data, would insert it
PageRowOf(site, data) ==
    update_object_from_data([WeeblyPage(site) EXCEPT !.page_id = int(data.page_id)],
                            PagesMapping, data, site, {}).obj

\* the answer of a request that fails, in the refresh_* calls
ServerError ==
    [status_code |-> 500, is_json |-> TRUE, error |-> <<<<"boom">>>>,
     data |-> <<>>]

\* the remote sides a refresh_* call may meet: a list, and which page fails
Worlds(S) ==
    { [remote |-> l, fail_at |-> k, failure |-> ServerError] :
        l \in ListsOf(S), k \in 0..(MaxLen \div DefaultLimitCount + 1) }

\* ------------------------------------- WeeblyPaymentNotification
\* the largest number of payment notifications
MaxPayments == 2

\* a Decimal: n * 10^-exp
Decimal(n, exp) == [n |-> n, exp |-> exp]

\* Decimal * Decimal
times(a, b) == Decimal(a.n * b.n, a.exp + b.exp)

\* marto_python's to_decimal: the number as a Decimal, quantized to
\* decimal_places places (halves go to the even neighbour)
to_decimal(num, decimal_places) ==
    IF num.exp <= decimal_places
    THEN Decimal(num.n * 10^(decimal_places - num.exp), decimal_places)
    ELSE LET unit == 10^(num.exp - decimal_places)
             q == num.n \div unit
             r == num.n % unit
         IN  Decimal(IF 2 * r > unit THEN q + 1
                     ELSE IF 2 * r = unit THEN q + (q % 2)
                     ELSE q,
                     decimal_places)

\* the float 0.3, which is a little less than three tenths
float_0_3 == Decimal(29999999, 8)

\* a handler that fills payable_amount only where it is blank
pre_save_if_blank(instance) ==
    IF instance.payable_amount # <<>> THEN instance
    ELSE [instance EXCEPT !.payable_amount =
            <<to_decimal(times(instance.gross_amount, to_decimal(float_0_3, 2)), 2)>>]

\* WeeblyPaymentNotification.pre_save
pre_save(instance) ==
    [instance EXCEPT !.payable_amount =
        <<to_decimal(times(instance.gross_amount, to_decimal(float_0_3, 2)), 2)>>]

\* Model.save() of a payment notification: the pre_save signal runs the
\* handler on the instance, then the row is written (pk 0: a new row)
save_payment(rows, pk, instance) ==
    IF pk = 0 THEN Append(rows, pre_save(instance))
    ELSE [rows EXCEPT ![pk] = pre_save(instance)]

\* WeeblyPaymentNotification(..): the fields' defaults (models.py 492-502)
new_payment(gross_amount, payable_amount) ==
    [gross_amount |-> gross_amount, payable_amount |-> payable_amount,
     notified_to_weebly |-> FALSE, notified_to_weebly_on |-> <<>>]

\* timezone.now()
timezone_now == <<"now">>

\* what notify() gives when it returns before any request: self is the
\* instance as it leaves, save whether self.save() was called
notify_early(self, pk, save, rv, level, is_valid, auth) ==
    [self |-> self, save |-> save, rv |-> rv,
     log |-> <<Event(level, pk)>> \o (IF save THEN <<Event("save", pk)>> ELSE <<>>),
     is_valid |-> is_valid, default_auth |-> auth]

\* a notify() that stamps the payment whatever the request gave
notify_requested_always(self, pk, use_default, auth, r) ==
    [self |-> [self EXCEPT !.notified_to_weebly = TRUE,
                           !.notified_to_weebly_on = timezone_now],
     save |-> TRUE, rv |-> r.rv,
     log |-> <<Event("payment request", pk)>> \o r.log \o <<Event("save", pk)>>,
     is_valid |-> IF use_default THEN FALSE ELSE r.is_valid,
     default_auth |-> IF use_default THEN <<[is_valid |-> r.is_valid]>> ELSE auth]

\* models.py 556-563: r is what weebly_request gave, on the site's auth or on
\* the default one
notify_requested(self, pk, use_default, auth, r) ==
    [self |-> IF "error" \notin DOMAIN r.rv
              THEN [self EXCEPT !.notified_to_weebly = TRUE,
                                !.notified_to_weebly_on = timezone_now]
              ELSE self,
     save |-> "error" \notin DOMAIN r.rv,
     rv |-> r.rv,
     log |-> <<Event("payment request", pk)>> \o r.log
             \o (IF "error" \notin DOMAIN r.rv THEN <<Event("save", pk)>>
                 ELSE <<Event("logger.error", pk)>>),
     is_valid |-> IF use_default THEN FALSE ELSE r.is_valid,
     default_auth |-> IF use_default THEN <<[is_valid |-> r.is_valid]>> ELSE auth]

\* a notify() without its first check
notify_again(self, pk, is_valid, auth, resp) ==
    IF self.gross_amount.n = 0
    THEN notify_early([self EXCEPT !.notified_to_weebly = TRUE], pk, TRUE, <<>>,
                      "logger.warning", is_valid, auth)
    ELSE IF ~is_valid /\ auth = <<>>
    THEN notify_early(self, pk, FALSE, [error |-> <<"Invalid weebly auth">>],
                      "logger.error", is_valid, auth)
    ELSE notify_requested(self, pk, ~is_valid, auth,
            weebly_request(IF is_valid THEN is_valid ELSE auth[1].is_valid,
                           resp, <<"reporting payment">>, <<>>))

\* a notify() that sends the request for a zero payment too
notify_zero_requested(self, pk, is_valid, auth, resp) ==
    IF self.notified_to_weebly
    THEN notify_early(self, pk, FALSE,
            [error |-> <<"trying to notify an already notified payment">>],
            "logger.error", is_valid, auth)
    ELSE IF ~is_valid /\ auth = <<>>
    THEN notify_early(self, pk, FALSE, [error |-> <<"Invalid weebly auth">>],
                      "logger.error", is_valid, auth)
    ELSE notify_requested(self, pk, ~is_valid, auth,
            weebly_request(IF is_valid THEN is_valid ELSE auth[1].is_valid,
                           resp, <<"reporting payment">>, <<>>))

\* WeeblyPaymentNotification.notify: is_valid is the is_valid of the site's
\* auth, auth the default auth of the settings, resp what the request gets
notify(self, pk, is_valid, auth, resp) ==
    IF self.notified_to_weebly
    THEN notify_early(self, pk, FALSE,
            [error |-> <<"trying to notify an already notified payment">>],
            "logger.error", is_valid, auth)
    ELSE IF self.gross_amount.n = 0
    THEN notify_early([self EXCEPT !.notified_to_weebly = TRUE], pk, TRUE, <<>>,
                      "logger.warning", is_valid, auth)
    ELSE IF ~is_valid /\ auth = <<>>
    THEN notify_early(self, pk, FALSE, [error |-> <<"Invalid weebly auth">>],
                      "logger.error", is_valid, auth)
    ELSE notify_requested(self, pk, ~is_valid, auth,
            weebly_request(IF is_valid THEN is_valid ELSE auth[1].is_valid,
                           resp, <<"reporting payment">>, <<>>))

\* the rows WeeblyPaymentNotification.objects.filter(notified_to_weebly=False)
\* gives, by pk
unnotified(rows) ==
    SelectSeq([pk \in 1..Len(rows) |-> pk],
              LAMBDA pk : ~rows[pk].notified_to_weebly)

RECURSIVE notify_each(_, _, _, _, _, _, _)
\* a loop that gives up at the first payment whose notify() returns an error
after_notify_stop_on_error(rows, notifs, resps, results, log, n) ==
    IF "error" \in DOMAIN n.rv
    THEN [rows |-> rows, is_valid |-> n.is_valid, default_auth |-> n.default_auth,
          results |-> Append(results, [pk |-> Head(notifs), rv |-> n.rv]),
          log |-> log \o n.log]
    ELSE notify_each(save_payment(rows, Head(notifs), n.self), Tail(notifs),
                     n.is_valid, n.default_auth, resps,
                     Append(results, [pk |-> Head(notifs), rv |-> n.rv]),
                     log \o n.log)

\* models.py 519-521: n is what notif.notify() gave; its result is dropped
\* and the loop goes on to the next row (results keeps it for the record)
after_notify(rows, notifs, resps, results, log, n) ==
    notify_each(IF n.save THEN save_payment(rows, Head(notifs), n.self) ELSE rows,
                Tail(notifs), n.is_valid, n.default_auth, resps,
                Append(results, [pk |-> Head(notifs), rv |-> n.rv]),
                log \o n.log)

\* the for loop of notify_unnotified over the rows of the query
notify_each(rows, notifs, is_valid, auth, resps, results, log) ==
    IF notifs = <<>>
    THEN [rows |-> rows, is_valid |-> is_valid, default_auth |-> auth,
          results |-> results, log |-> log]
    ELSE after_notify(rows, notifs, resps, results,
                      Append(log, Event("notify", Head(notifs))),
                      notify(rows[Head(notifs)], Head(notifs), is_valid, auth,
                             resps[Head(notifs)]))

\* WeeblyPaymentNotification.notify_unnotified
notify_unnotified(rows, is_valid, auth, resps) ==
    notify_each(rows, unnotified(rows), is_valid, auth, resps, <<>>,
                <<Event("logger.info", Len(unnotified(rows)))>>)

\* -------------------------------------------- update_from_data, refresh_site
\* WeeblyUser.get_or_create(user_id): the user, and the table afterwards
get_or_create(users, user_id) ==
    [val |-> <<int(user_id)>>, users |-> users \cup {int(user_id)}]

\* refresh.py 60-64: a language that is not a string (None here) is replaced
\* by the site's own
lang_func(site, l) == IF l = None THEN site.language ELSE l

\* mapping_fn(json_val) for the functions refresh_site's mapping names;
\* obj is the site being updated, users the WeeblyUser table
mapping_fn(fn, json_val, obj, users) ==
    CASE fn = "as_int" -> [val |-> as_int(json_val), users |-> users]
      [] fn = "unescape_func" -> [val |-> unescape_func(json_val), users |-> users]
      [] fn = "lang_func" -> [val |-> lang_func(obj, json_val), users |-> users]
      [] fn = "get_or_create" -> get_or_create(users, json_val)

\* refresh.py 21-32: one turn of update_from_data's loop
update_attr(acc, mapping, data) ==
    LET new == IF Len(mapping) >= 3
               THEN mapping_fn(mapping[3], data[mapping[1]], acc.obj, acc.users)
               ELSE [val |-> data[mapping[1]], users |-> acc.users]
    IN  [obj |-> IF acc.obj[mapping[2]] # new.val
                 THEN [acc.obj EXCEPT ![mapping[2]] = new.val] ELSE acc.obj,
         changed |-> acc.changed \/ acc.obj[mapping[2]] # new.val,
         users |-> new.users]

RECURSIVE update_attrs(_, _, _, _)
update_attrs(acc, data_obj_mapping, i, data) ==
    IF i > Len(data_obj_mapping) THEN acc
    ELSE With(update_attr(acc, data_obj_mapping[i], data),
              LAMBDA a : update_attrs(a, data_obj_mapping, i + 1, data))

\* update_from_data: the object updated and whether it changed (and the
\* users, which one of refresh_site's mapping functions adds to)
update_from_data(obj, data, data_obj_mapping, users) ==
    update_attrs([obj |-> obj, changed |-> FALSE, users |-> users],
                 data_obj_mapping, 1, data)

\* the mapping refresh_site passes
SiteMapping ==
    << <<"site_id", "site_id", "as_int">>,
       <<"site_title", "site_title", "unescape_func">>,
       <<"domain", "domain">>,
       <<"is_published", "is_published">>,
       <<"language", "language", "lang_func">>,
       <<"user_id", "user", "get_or_create">> >>

SiteNotFound == <<"Site", "not", "found">>

\* site.save() and site.signal_change(), when changed
save_and_signal(changed) ==
    IF changed THEN <<Event("save", 0), Event("signal_change", 0)>> ELSE <<>>

\* a refresh_site that takes every error for a missing site
refresh_site_after_any_error(site, users, r) ==
    IF "error" \notin DOMAIN r.rv
    THEN With(update_from_data(site, r.resp_json, SiteMapping, users),
              LAMBDA u :
                [site |-> [u.obj EXCEPT !.is_found = TRUE], users |-> u.users,
                 update |-> <<u>>, rv |-> r.rv, is_valid |-> r.is_valid,
                 log |-> r.log \o save_and_signal(u.changed \/ ~u.obj.is_found)])
    ELSE [site |-> [site EXCEPT !.is_found = FALSE], users |-> users,
          update |-> <<>>, rv |-> r.rv, is_valid |-> r.is_valid,
          log |-> r.log \o save_and_signal(site.is_found)]

\* refresh.py 58-85: r is what weebly_request gave; update is what
\* update_from_data returned, if it was called
refresh_site_after(site, users, r) ==
    IF "error" \notin DOMAIN r.rv
    THEN With(update_from_data(site, r.resp_json, SiteMapping, users),
              LAMBDA u :
                [site |-> [u.obj EXCEPT !.is_found = TRUE], users |-> u.users,
                 update |-> <<u>>, rv |-> r.rv, is_valid |-> r.is_valid,
                 log |-> r.log \o save_and_signal(u.changed \/ ~u.obj.is_found)])
    ELSE IF Contains(r.rv.error, SiteNotFound)
    THEN [site |-> [site EXCEPT !.is_found = FALSE], users |-> users,
          update |-> <<>>, rv |-> r.rv, is_valid |-> r.is_valid,
          log |-> r.log \o save_and_signal(site.is_found)]
    ELSE [site |-> site, users |-> users, update |-> <<>>, rv |-> r.rv,
          is_valid |-> r.is_valid, log |-> r.log]

\* refresh_site: the request, then what follows it
refresh_site(site, users, is_valid, resp) ==
    refresh_site_after(site, users,
        weebly_request(is_valid, resp, <<"getting site details">>,
                       <<SiteNotFound>>))

\* ------------------------------------------------------------- state
VARIABLES
    resource,          \* which of the sites' resources this run refreshes
    pages,             \* the WeeblyPage table
    store_products,    \* the WeeblyStoreProduct table
    store_categories,  \* the WeeblyStoreCategory table
    is_valid,          \* WeeblyAuth.is_valid
    default_auth,      \* the WeeblyAuth settings.DEFAULT_WEEBLY_AUTH names, if any
    payments,          \* the WeeblyPaymentNotification table, by pk
    weebly_site,       \* a WeeblySite row
    weebly_users,      \* the WeeblyUser table: the user_ids it holds
    pc,                \* "idle", "loop" (inside refresh_store_categories), "returned"
    call,              \* the call in progress or just returned, with its arguments
    locals,            \* the locals of refresh_store_categories
    rv,                \* the dict the call returned
    log                \* what the call did: requests, table writes, emails, signals

vars == <<resource, pages, store_products, store_categories, is_valid,
          default_auth, payments, weebly_site, weebly_users, pc, call, locals,
          rv, log>>

tables == <<pages, store_products, store_categories>>

\* what the refreshes of the lists and the plain requests leave alone
\* the site and the users
sites == <<weebly_site, weebly_users>>

others == <<default_auth, payments, sites>>

Idle == [fn |-> "idle"]

\* settings.DEFAULT_WEEBLY_AUTH: unset, or the pk of a WeeblyAuth (models.py
\* 183: is_valid defaults to True)
DefaultAuths == {<<>>, <<[is_valid |-> TRUE]>>}

\* WeeblySite.get_or_create(site_id): a row with the fields' defaults
NewSite ==
    [site_id |-> <<1>>, site_title |-> None, domain |-> None,
     is_published |-> FALSE, language |-> None, user |-> <<>>,
     is_found |-> TRUE]

\* Nothing is stored yet and no call is in progress.  The three tables are
\* independent (no refresh function reads another one's table), so a run
\* follows the refreshes of one of them, or the calls made on the WeeblyAuth
\* itself ("auth"), on the payment notifications ("payments") or on the site's
\* own row ("site").
Init ==
    /\ resource \in {"pages", "store_products", "store_categories", "auth",
                     "payments", "site"}
    /\ pages = {}
    /\ store_products = {}
    /\ store_categories = {}
    /\ is_valid = TRUE
    /\ default_auth \in IF resource = "payments" THEN DefaultAuths ELSE {<<>>}
    /\ payments = <<>>
    /\ weebly_site = NewSite
    /\ weebly_users = {}
    /\ pc = "idle"
    /\ call = Idle
    /\ locals = <<>>
    /\ rv = <<>>
    /\ log = <<>>

\* the caller takes the result; the next call starts from the tables alone
Return ==
    /\ pc = "returned"
    /\ pc' = "idle"
    /\ call' = Idle
    /\ locals' = <<>>
    /\ rv' = <<>>
    /\ log' = <<>>
    /\ UNCHANGED <<others, resource, tables, is_valid>>

\* ------------------------------------------------------- refresh.py
\* refresh.py 113-115, 238-240: r is what update_list_of gave
signal_if_changes(r, site, signal_change) ==
    [rows |-> r.rows, rv |-> r.rv, missing |-> r.missing,
     log |-> IF signal_change /\ "changes" \in DOMAIN r.rv /\ r.rv.changes
             THEN Append(r.log, Event("signal_change", site)) ELSE r.log]

\* refresh_pages_from_data: update_list_of on site.pages, then the signal
refresh_pages_from_data(site, pages_data, signal_change, race, rows) ==
    signal_if_changes(
        update_list_of(site, pages_data, "page", "page_id", "page_id", rows,
                       PagesMapping, race),
        site, signal_change)

\* what a call is remembered by: its arguments, what the remote side was,
\* what the paginated request gave and the table it started from
CallOf(fn, site, world, signal_change, race, f, before) ==
    [fn |-> fn, site |-> site, world |-> world, signal_change |-> signal_change,
     race |-> race, fetch |-> f.rv, json_data |-> f.response_json,
     before |-> before]

\* refresh_pages: the paginated request, then refresh_pages_from_data
RefreshPages(site, world, signal_change, race) ==
    /\ pc = "idle"
    /\ resource = "pages"
    /\ \E f \in {weebly_request_paginated(is_valid, world,
                                          <<"requesting pages">>, <<>>,
                                          DefaultLimitCount)} :
         /\ is_valid' = f.is_valid
         /\ call' = CallOf("refresh_pages", site, world, signal_change, race, f,
                           pages)
         /\ IF "error" \in DOMAIN f.rv
            THEN /\ rv' = f.rv
                 /\ log' = f.log
                 /\ UNCHANGED pages
            ELSE \E r \in {refresh_pages_from_data(site, f.response_json,
                                                   signal_change, race, pages)} :
                   /\ rv' = r.rv
                   /\ log' = f.log \o r.log
                   /\ pages' = r.rows
    /\ pc' = "returned"
    /\ UNCHANGED <<others, resource, store_products, store_categories, locals>>

\* refresh_store_products: the paginated request, update_list_of, the signal
RefreshStoreProducts(site, world, signal_change, race) ==
    /\ pc = "idle"
    /\ resource = "store_products"
    /\ \E f \in {weebly_request_paginated(is_valid, world,
                                          <<"requesting store products">>, <<>>,
                                          DefaultLimitCount)} :
         /\ is_valid' = f.is_valid
         /\ call' = CallOf("refresh_store_products", site, world, signal_change,
                           race, f, store_products)
         /\ IF "error" \in DOMAIN f.rv
            THEN /\ rv' = f.rv
                 /\ log' = f.log
                 /\ UNCHANGED store_products
            ELSE \E r \in {signal_if_changes(
                              update_list_of(site, f.response_json,
                                             "store product", "product_id",
                                             "product_id", store_products,
                                             ProductsMapping, race),
                              site, signal_change)} :
                   /\ rv' = r.rv
                   /\ log' = f.log \o r.log
                   /\ store_products' = r.rows
    /\ pc' = "returned"
    /\ UNCHANGED <<others, resource, pages, store_categories, locals>>

\* refresh_store_categories up to its loop: the paginated request
RefreshStoreCategories(site, world, signal_change) ==
    /\ pc = "idle"
    /\ resource = "store_categories"
    /\ \E f \in {weebly_request_paginated(is_valid, world,
                                          <<"requesting store categories">>,
                                          <<>>, DefaultLimitCount)} :
         /\ is_valid' = f.is_valid
         /\ call' = CallOf("refresh_store_categories", site, world,
                           signal_change, <<>>, f, store_categories)
         /\ log' = f.log
         /\ IF "error" \in DOMAIN f.rv
            THEN /\ rv' = f.rv
                 /\ pc' = "returned"
                 /\ locals' = <<>>
            ELSE /\ rv' = <<>>
                 /\ pc' = "loop"
                 /\ locals' = [response_json |-> f.response_json, loops |-> 0,
                               changes |-> FALSE, missing_cats |-> <<>>]
    /\ UNCHANGED <<others, resource, tables>>

\* a cap one pass later, and one pass earlier
already_4_times(loops) == loops = 4
already_2_times(loops) == loops = 2

\* refresh.py 345: the cap on the passes
already_3_times(loops) == loops = 3

\* refresh.py 350-351: after the loop
categories_return(changes, site, signal_change) ==
    [rv |-> [changes |-> changes],
     log |-> IF signal_change /\ changes
             THEN <<Event("signal_change", site)>> ELSE <<>>]

\* one turn of refresh_store_categories' `while True`, and, when it breaks,
\* what follows the loop
CategoriesPass ==
    /\ pc = "loop"
    /\ \E r \in {update_list_of(call.site, locals.response_json,
                                "store category", "category_id", "category_id",
                                store_categories, CategoriesMapping, <<>>)} :
       \E changes \in {locals.changes
                         \/ ("changes" \in DOMAIN r.rv /\ r.rv.changes)} :
       \E done \in {categories_return(changes, call.site, call.signal_change)} :
         /\ store_categories' = r.rows
         /\ locals' = [locals EXCEPT !.loops = @ + 1, !.changes = changes,
                                     !.missing_cats = r.missing]
         /\ IF r.missing = <<>>
            THEN /\ pc' = "returned"
                 /\ rv' = done.rv
                 /\ log' = log \o r.log \o done.log
            ELSE IF already_3_times(locals.loops + 1)
            THEN /\ pc' = "returned"
                 /\ rv' = done.rv
                 /\ log' = log \o r.log
                           \o <<Event("already 3 times looping", call.site)>>
                           \o done.log
            ELSE /\ pc' = "loop"
                 /\ rv' = rv
                 /\ log' = log \o r.log
    /\ UNCHANGED <<others, resource, pages, store_products, is_valid, call>>

\* the rows another thread can get in between: for an id the call is about
\* to create, in a call whose request does not fail
Races(site, world, object_name, rows, RowOf(_, _)) ==
    {<<>>} \cup
    { <<RowOf(site, d)>> : d \in
        { e \in {world.remote[i] : i \in 1..Len(world.remote)} :
            /\ world.fail_at = 0
            /\ ~IntegrityError(object_name, rows, RowOf(site, e)) } }

SignalChange == BOOLEAN

\* what the remote side holds of categories: anything for the first site; the
\* second site is there for its rows, and holds one parentless category at most
CategoryWorlds(site) ==
    IF site = 1 THEN Worlds(RemoteCategories)
    ELSE { w \in Worlds(RemoteCategories) :
             /\ Len(w.remote) <= 1
             /\ \A i \in 1..Len(w.remote) : w.remote[i].parent_category_id = <<>> }

\* a call of site.refresh_pages(), on whatever the remote side holds
CallRefreshPages ==
    /\ pc = "idle"
    /\ resource = "pages"
    /\ \E site \in Sites, world \in Worlds(RemotePages),
          signal_change \in SignalChange :
            \E race \in Races(site, world, "page", pages, PageRowOf) :
                RefreshPages(site, world, signal_change, race)

\* a call of site.refresh_store_products()
CallRefreshStoreProducts ==
    /\ pc = "idle"
    /\ resource = "store_products"
    /\ \E site \in Sites, world \in Worlds(RemoteProducts),
          signal_change \in SignalChange :
            \E race \in Races(site, world, "store product", store_products,
                              ProductRowOf) :
                RefreshStoreProducts(site, world, signal_change, race)

\* a call of site.refresh_store_categories()
CallRefreshStoreCategories ==
    /\ pc = "idle"
    /\ resource = "store_categories"
    /\ \E site \in Sites, signal_change \in SignalChange :
         \E world \in CategoryWorlds(site) :
            RefreshStoreCategories(site, world, signal_change)

\* ------------------------------------------- calls on the WeeblyAuth
\* the longest expected_errors list a caller passes
MaxExpected == 2
\* the longest remote list of a paginated request, and the largest limit_count
MaxItems == 5
MaxLimit == 3

ActionNames == {<<"publishing", "site">>, <<"deauthorizing">>}

\* the messages of the API's error bodies
ErrorMessages ==
    {UnknownApiKey, <<"This", "site", "cannot", "be", "published">>, <<"boom">>}

\* what a caller may list as expected: a piece of an API message, one that
\* runs from the action name into the API message, and the auth's name
ExpectedStrings ==
    {<<"cannot", "be", "published">>, <<"site", " - ", "boom">>, AuthName}

ExpectedErrors == UNION {[1..n -> ExpectedStrings] : n \in 0..MaxExpected}

\* the responses a request may get
Responses ==
    { [status_code |-> s, is_json |-> j, error |-> e, data |-> <<>>] :
        s \in {200, 500}, j \in BOOLEAN,
        e \in {<<>>} \cup {<<m>> : m \in ErrorMessages} }

\* what a failing request of a paginated fetch may be answered with
Failures ==
    { RequestException, ServerError,
      [status_code |-> 200, is_json |-> FALSE, error |-> <<>>, data |-> <<>>],
      [status_code |-> 401, is_json |-> TRUE, error |-> <<UnknownApiKey>>,
       data |-> <<>>] }

\* the remote sides of a paginated fetch: the items 1..n, and which page fails
PaginatedWorlds ==
    { [remote |-> [i \in 1..n |-> i], fail_at |-> k, failure |-> f] :
        n \in 0..MaxItems, k \in 1..(MaxItems + 1), f \in Failures }
    \cup { [remote |-> [i \in 1..n |-> i], fail_at |-> 0, failure |-> ServerError] :
             n \in 0..MaxItems }

\* a call of weebly_auth.weebly_request(..)
WeeblyRequest(resp, action_name, expected_errors) ==
    /\ pc = "idle"
    /\ resource = "auth"
    /\ \E r \in {weebly_request(is_valid, resp, action_name, expected_errors)} :
         /\ is_valid' = r.is_valid
         /\ rv' = r.rv
         /\ log' = r.log
         /\ call' = [fn |-> "weebly_request", resp |-> resp,
                     action_name |-> action_name,
                     expected_errors |-> expected_errors,
                     json_data |-> r.resp_json]
    /\ pc' = "returned"
    /\ UNCHANGED <<others, resource, tables, locals>>

\* a call of weebly_auth.weebly_request_paginated(.., limit_count=..)
WeeblyRequestPaginated(world, limit_count) ==
    /\ pc = "idle"
    /\ resource = "auth"
    /\ \E f \in {weebly_request_paginated(is_valid, world, <<"paginating">>,
                                          <<>>, limit_count)} :
         /\ is_valid' = f.is_valid
         /\ rv' = f.rv
         /\ log' = f.log
         /\ call' = [fn |-> "weebly_request_paginated", world |-> world,
                     limit_count |-> limit_count, json_data |-> f.response_json]
    /\ pc' = "returned"
    /\ UNCHANGED <<others, resource, tables, locals>>

CallWeeblyRequest ==
    /\ pc = "idle"
    /\ resource = "auth"
    /\ \E resp \in Responses \cup {RequestException},
          action_name \in ActionNames, expected_errors \in ExpectedErrors :
            WeeblyRequest(resp, action_name, expected_errors)

CallWeeblyRequestPaginated ==
    /\ pc = "idle"
    /\ resource = "auth"
    /\ \E world \in PaginatedWorlds, limit_count \in 1..MaxLimit :
            WeeblyRequestPaginated(world, limit_count)

\* ------------------------------------------ calls on the payments
\* the amounts of the payments, in cents: none, two whose 30% falls half-way
\* between two cents, and a round one
GrossAmounts == {Decimal(0, 2), Decimal(5, 2), Decimal(15, 2), Decimal(1000, 2)}

\* what payable_amount holds on an instance before it is saved
PayableAmounts == {<<>>, <<Decimal(7, 2)>>}

\* what the payment request may get
OkResponse == [status_code |-> 200, is_json |-> TRUE, error |-> <<>>, data |-> <<>>]
NotifyResponses == {OkResponse} \cup Failures

\* WeeblyPaymentNotification.objects.create(gross_amount=.., ..)
CreatePayment(gross_amount, payable_amount) ==
    /\ pc = "idle"
    /\ resource = "payments"
    /\ Len(payments) < MaxPayments
    /\ payments' = save_payment(payments, 0,
                                new_payment(gross_amount, payable_amount))
    /\ call' = [fn |-> "create", pk |-> Len(payments) + 1,
                instance |-> new_payment(gross_amount, payable_amount)]
    /\ log' = <<Event("save", Len(payments) + 1)>>
    /\ pc' = "returned"
    /\ UNCHANGED <<resource, tables, is_valid, default_auth, sites, locals, rv>>

\* the amounts of a stored payment are set and the payment saved
SavePayment(pk, gross_amount, payable_amount) ==
    /\ pc = "idle"
    /\ resource = "payments"
    /\ pk \in 1..Len(payments)
    /\ \E instance \in {[payments[pk] EXCEPT !.gross_amount = gross_amount,
                                            !.payable_amount = payable_amount]} :
         /\ payments' = save_payment(payments, pk, instance)
         /\ call' = [fn |-> "save", pk |-> pk, instance |-> instance]
    /\ log' = <<Event("save", pk)>>
    /\ pc' = "returned"
    /\ UNCHANGED <<resource, tables, is_valid, default_auth, sites, locals, rv>>

\* a call of notify() on the payment pk
Notify(pk, resp) ==
    /\ pc = "idle"
    /\ resource = "payments"
    /\ pk \in 1..Len(payments)
    /\ \E n \in {notify(payments[pk], pk, is_valid, default_auth, resp)} :
         /\ payments' = IF n.save THEN save_payment(payments, pk, n.self)
                        ELSE payments
         /\ is_valid' = n.is_valid
         /\ default_auth' = n.default_auth
         /\ rv' = n.rv
         /\ log' = n.log
    /\ call' = [fn |-> "notify", pk |-> pk, resp |-> resp, before |-> payments,
                is_valid |-> is_valid, default_auth |-> default_auth]
    /\ pc' = "returned"
    /\ UNCHANGED <<resource, tables, sites, locals>>

\* a call of WeeblyPaymentNotification.notify_unnotified(); resps[pk] is what
\* the request for payment pk gets, if one is sent
NotifyUnnotified(resps) ==
    /\ pc = "idle"
    /\ resource = "payments"
    /\ \E u \in {notify_unnotified(payments, is_valid, default_auth, resps)} :
         /\ payments' = u.rows
         /\ is_valid' = u.is_valid
         /\ default_auth' = u.default_auth
         /\ locals' = u.results
         /\ log' = u.log
    /\ call' = [fn |-> "notify_unnotified", resps |-> resps,
                before |-> payments, is_valid |-> is_valid,
                default_auth |-> default_auth]
    /\ pc' = "returned"
    /\ UNCHANGED <<resource, tables, sites, rv>>

CallCreatePayment ==
    /\ pc = "idle"
    /\ resource = "payments"
    /\ \E gross_amount \in GrossAmounts, payable_amount \in PayableAmounts :
         CreatePayment(gross_amount, payable_amount)

CallSavePayment ==
    /\ pc = "idle"
    /\ resource = "payments"
    /\ \E pk \in 1..Len(payments), gross_amount \in GrossAmounts,
          payable_amount \in PayableAmounts :
         SavePayment(pk, gross_amount, payable_amount)

CallNotify ==
    /\ pc = "idle"
    /\ resource = "payments"
    /\ \E pk \in 1..Len(payments), resp \in NotifyResponses : Notify(pk, resp)

CallNotifyUnnotified ==
    /\ pc = "idle"
    /\ resource = "payments"
    /\ \E resps \in [1..Len(payments) -> NotifyResponses] : NotifyUnnotified(resps)

\* ------------------------------------ calls on the site and on objects
\* what the remote side may hold of the site
RemoteSites ==
    { [site_id |-> <<"1">>, site_title |-> t, domain |-> <<"d">>,
       is_published |-> p, language |-> l, user_id |-> u] :
        t \in {None, <<"&", "amp;", "amp;", "a">>}, p \in BOOLEAN,
        l \in {None, <<"en">>}, u \in IdStrings }

\* what the request for the site's details may get
SiteResponses ==
    { [status_code |-> 200, is_json |-> TRUE, error |-> <<>>, data |-> d] :
        d \in RemoteSites }
    \cup { [status_code |-> 404, is_json |-> TRUE, error |-> <<SiteNotFound>>,
            data |-> <<>>] }
    \cup Failures

\* a call of site.refresh_from_weebly(), that is refresh_site(site)
RefreshSite(resp) ==
    /\ pc = "idle"
    /\ resource = "site"
    /\ \E f \in {refresh_site(weebly_site, weebly_users, is_valid, resp)} :
         /\ weebly_site' = f.site
         /\ weebly_users' = f.users
         /\ is_valid' = f.is_valid
         /\ rv' = f.rv
         /\ log' = f.log
         /\ locals' = f.update
    /\ call' = [fn |-> "refresh_site", resp |-> resp, site |-> weebly_site,
                users |-> weebly_users]
    /\ pc' = "returned"
    /\ UNCHANGED <<resource, tables, default_auth, payments>>

CallRefreshSite ==
    /\ pc = "idle"
    /\ resource = "site"
    /\ \E resp \in SiteResponses : RefreshSite(resp)

\* a call of update_object_from_data(obj, properties_mapping, data) on a page
UpdateObjectFromData(obj, data) ==
    /\ pc = "idle"
    /\ resource = "pages"
    /\ locals' = update_object_from_data(obj, PagesMapping, data, obj.site, pages)
    /\ call' = [fn |-> "update_object_from_data", obj |-> obj, data |-> data,
                properties_mapping |-> PagesMapping, before |-> pages]
    /\ pc' = "returned"
    /\ UNCHANGED <<others, resource, tables, is_valid, rv, log>>

\* the object is a stored page or a new one
CallUpdateObjectFromData ==
    /\ pc = "idle"
    /\ resource = "pages"
    /\ \E obj \in pages \cup {WeeblyPage(site) : site \in Sites},
          data \in RemotePages :
         UpdateObjectFromData(obj, data)

Next ==
    \/ CallRefreshPages
    \/ CallRefreshStoreProducts
    \/ CallRefreshStoreCategories
    \/ CategoriesPass
    \/ CallWeeblyRequest
    \/ CallWeeblyRequestPaginated
    \/ CallCreatePayment
    \/ CallSavePayment
    \/ CallNotify
    \/ CallNotifyUnnotified
    \/ CallRefreshSite
    \/ CallUpdateObjectFromData
    \/ Return

Spec == Init /\ [][Next]_vars

\* refresh_store_categories' loop is straight-line code of one thread: a call
\* that is inside the loop goes on to its next pass
FairSpec == Spec /\ WF_vars(CategoriesPass)

\* =================================================================
\* The claims
\* =================================================================
\* a refresh_pages or refresh_store_products call has returned, and its
\* request had given it the list: update_list_of ran on call.json_data
Updated ==
    /\ pc = "returned"
    /\ call.fn \in {"refresh_pages", "refresh_store_products"}
    /\ "error" \notin DOMAIN call.fetch

IdProperty == IF call.fn = "refresh_pages" THEN "page_id" ELSE "product_id"
MappingOfCall == IF call.fn = "refresh_pages" THEN PagesMapping ELSE ProductsMapping
TableOfCall == IF call.fn = "refresh_pages" THEN pages ELSE store_products

\* the ids of site's rows in a table
LocalIds(rows, site, id_property) ==
    {r[id_property] : r \in related_manager(rows, site)}

\* the ids of the elements of the remote list
RemoteIds(json_data, id_property) ==
    {int(json_data[i][id_property]) : i \in 1..Len(json_data)}

\* the ids the call logged an event ev for, and how often it did for one id
EventIds(ev) == {log[i].id : i \in {j \in 1..Len(log) : log[j].ev = ev}}
EventCount(ev, id) ==
    Cardinality({i \in 1..Len(log) : log[i].ev = ev /\ log[i].id = id})

\* the rows of the call's collection with id k
LocalRows(k) ==
    {r \in related_manager(TableOfCall, call.site) : r[IdProperty] = k}

\* the last element of the remote list with id k
LastRemote(k) ==
    call.json_data[CHOOSE i \in 1..Len(call.json_data) :
        /\ int(call.json_data[i][IdProperty]) = k
        /\ \A j \in 1..Len(call.json_data) :
              int(call.json_data[j][IdProperty]) = k => j <= i]

\* row r carries, in every mapped attribute, the transform of e's field
CarriesValuesOf(r, e) ==
    \A n \in 1..Len(MappingOfCall) :
        r[MappingOfCall[n][2]]
            = transform_func(MappingOfCall[n][3], e[MappingOfCall[n][1]],
                             call.site, {}).val

Occurrences(k) ==
    Cardinality({i \in 1..Len(call.json_data) :
                    int(call.json_data[i][IdProperty]) = k})

\* the save of new element k raised IntegrityError and the second filter found
\* a row (the one the other thread had inserted)
FoundAfterIntegrityError(k) ==
    /\ k \in EventIds("IntegrityError")
    /\ call.race # <<>>
    /\ call.race[1][IdProperty] = k

\* the save of new element k raised IntegrityError and the collection holds no k
NotFoundAfterIntegrityError(k) ==
    /\ k \in EventIds("IntegrityError")
    /\ ~(call.race # <<>> /\ call.race[1][IdProperty] = k)

\* C1: after update_list_of on a collection (whatever earlier calls left in
\* it), when no save raised IntegrityError, the ids of the collection are
\* the ids of the remote list: the ids the list lacks were deleted, the ids the
\* collection lacked were created.
C1_LocalIdsAreRemoteIds ==
    (Updated /\ EventIds("IntegrityError") = {}) =>
        /\ LocalIds(TableOfCall, call.site, IdProperty)
              = RemoteIds(call.json_data, IdProperty)
        /\ EventIds("delete")
              = LocalIds(call.before, call.site, IdProperty)
                   \ RemoteIds(call.json_data, IdProperty)
        /\ EventIds("insert")
              = RemoteIds(call.json_data, IdProperty)
                   \ LocalIds(call.before, call.site, IdProperty)

\* C1's case: a call that deleted a record of an earlier list and created another
C1_Witness ==
    /\ Updated
    /\ EventIds("IntegrityError") = {}
    /\ EventIds("delete") # {}
    /\ EventIds("insert") # {}

\* C2 as stated: every local record whose id is in the remote list carries the
\* transformed remote values, and an id the list holds more than once has
\* exactly one local record, with the values of its last occurrence.
C2_AsStated ==
    Updated =>
        \A k \in RemoteIds(call.json_data, IdProperty) :
            /\ \A r \in LocalRows(k) : CarriesValuesOf(r, LastRemote(k))
            /\ Occurrences(k) > 1 => Cardinality(LocalRows(k)) = 1

\* C2, amended: ... an id the list holds more than once has exactly one local
\* record, unless its save raised IntegrityError with no such record in the
\* collection, and then it has none.
C2_ValuesOfLastOccurrence ==
    Updated =>
        \A k \in RemoteIds(call.json_data, IdProperty) :
            /\ \A r \in LocalRows(k) : CarriesValuesOf(r, LastRemote(k))
            /\ Occurrences(k) > 1 =>
                  IF NotFoundAfterIntegrityError(k)
                  THEN LocalRows(k) = {}
                  ELSE Cardinality(LocalRows(k)) = 1

\* C2's case: an id twice in the list, with different values, now stored, in a
\* collection that held the id before with yet other values
C2_Witness ==
    /\ Updated
    /\ \E k \in RemoteIds(call.json_data, IdProperty) :
          /\ Occurrences(k) > 1
          /\ call.json_data[1] # call.json_data[2]
          /\ LocalRows(k) # {}
          /\ k \in EventIds("save")
          /\ k \notin EventIds("insert")

\* C3: when the save of a new record raised IntegrityError and the record is
\* then found in the collection, it is treated as existing: it carries the
\* remote values afterwards, was saved if and only if a mapped attribute
\* differed, no second record was created, and nothing was reported.
C3_IntegrityErrorThenFound ==
    Updated =>
        \A k \in RemoteIds(call.json_data, IdProperty) :
            FoundAfterIntegrityError(k) =>
                /\ Cardinality(LocalRows(k)) = 1
                /\ \A r \in LocalRows(k) : CarriesValuesOf(r, LastRemote(k))
                /\ k \notin EventIds("insert")
                /\ k \notin EventIds("integrity error and not exists")
                /\ (k \in EventIds("save"))
                      <=> ~CarriesValuesOf(call.race[1], LastRemote(k))

\* C3's case: the found record differed and was updated
C3_Witness ==
    /\ Updated
    /\ \E k \in RemoteIds(call.json_data, IdProperty) :
          /\ FoundAfterIntegrityError(k)
          /\ k \in EventIds("save")

\* C4: when the save of a new record raised IntegrityError and the collection
\* holds no record of that id, the element is skipped and reported by one
\* email, every other element of the list is still stored with its values,
\* and the call returns {'changes': ..} with no 'error' key, as update_list_of
\* always does.
C4_IntegrityErrorAndNotExists ==
    Updated =>
        /\ "error" \notin DOMAIN rv
        /\ "changes" \in DOMAIN rv
        /\ \A k \in RemoteIds(call.json_data, IdProperty) :
              IF NotFoundAfterIntegrityError(k)
              THEN /\ LocalRows(k) = {}
                   /\ EventCount("integrity error and not exists", k) = 1
              ELSE /\ Cardinality(LocalRows(k)) = 1
                   /\ \A r \in LocalRows(k) : CarriesValuesOf(r, LastRemote(k))
                   /\ EventCount("integrity error and not exists", k) = 0

\* C4's case: the first element is skipped, the one after it is created
C4_Witness ==
    /\ Updated
    /\ Len(call.json_data) = 2
    /\ NotFoundAfterIntegrityError(int(call.json_data[1][IdProperty]))
    /\ int(call.json_data[2][IdProperty]) \in EventIds("insert")

\* ------------------------------------------ refresh_store_categories
\* a refresh_store_categories call has returned after its loop
CategoriesReturned ==
    /\ pc = "returned"
    /\ call.fn = "refresh_store_categories"
    /\ "error" \notin DOMAIN call.fetch

\* the ids of the remote categories of the call
CategoryIds == RemoteIds(call.json_data, "category_id")

\* the site's local categories with category_id k
CategoryRows(k) ==
    {r \in related_manager(store_categories, call.site) : r.category_id = k}

\* the remote category k: the last element of the list with that id
RemoteCategory(k) ==
    call.json_data[CHOOSE i \in 1..Len(call.json_data) :
        /\ int(call.json_data[i].category_id) = k
        /\ \A j \in 1..Len(call.json_data) :
              int(call.json_data[j].category_id) = k => j <= i]

\* remote category k names a parent that the site does not hold
ParentUnresolved(k) ==
    /\ ~falsy(RemoteCategory(k).parent_category_id)
    /\ CategoryRows(int(RemoteCategory(k).parent_category_id)) = {}

\* C5: after refresh_store_categories returned without error, the local
\* category of every remote category whose parent_category_id names a
\* category_id of the same list has that site's local record of that id as its
\* parent_category, whatever the order of the list; a remote category with
\* an empty parent_category_id has no parent_category.
C5_ParentsResolved ==
    CategoriesReturned =>
        \A k \in CategoryIds :
            /\ Cardinality(CategoryRows(k)) = 1
            /\ \A r \in CategoryRows(k) :
                  IF falsy(RemoteCategory(k).parent_category_id)
                  THEN r.parent_category = <<>>
                  ELSE int(RemoteCategory(k).parent_category_id) \in CategoryIds =>
                          /\ r.parent_category
                                = << <<call.site,
                                       int(RemoteCategory(k).parent_category_id)>> >>
                          /\ ~ParentUnresolved(k)

\* C5's case: the child comes before its parent in the list, and another site
\* holds a category of the parent's id
C5_Witness ==
    /\ CategoriesReturned
    /\ Len(call.json_data) = 2
    /\ call.json_data[1].parent_category_id = call.json_data[2].category_id
    /\ call.json_data[1].category_id # call.json_data[2].category_id
    /\ \E r \in store_categories :
          /\ r.site # call.site
          /\ r.category_id = int(call.json_data[2].category_id)

\* C6: refresh_store_categories terminates, and runs update_list_of over
\* the fetched list at least once and at most three times in a call.
C6_OneToThreePasses ==
    /\ [](pc = "loop" =>
            /\ locals.loops \in 0..2
            /\ EventCount("list update", call.site) = locals.loops)
    /\ [](CategoriesReturned =>
            /\ locals.loops \in 1..3
            /\ EventCount("list update", call.site) = locals.loops)
    /\ (pc = "loop") ~> (pc = "returned")

\* C6's case: a parent that no pass can resolve, and three passes made
C6_Witness ==
    /\ CategoriesReturned
    /\ EventCount("list update", call.site) = 3
    /\ \E k \in CategoryIds : ParentUnresolved(k)

\* C7: a call sends the 'already 3 times looping' email once if its third
\* pass still met a parent that resolves to no local category, and not at all
\* otherwise; it sends none when it made fewer than three passes.
C7_AlertIffThirdPassMissing ==
    CategoriesReturned =>
        /\ EventCount("already 3 times looping", call.site)
              = (IF locals.loops = 3 /\ locals.missing_cats # <<>> THEN 1 ELSE 0)
        /\ (locals.missing_cats # <<>>) <=> (\E k \in CategoryIds : ParentUnresolved(k))
        /\ locals.loops < 3 => locals.missing_cats = <<>>

\* C7's case: the email was sent
C7_Witness ==
    /\ CategoriesReturned
    /\ EventCount("already 3 times looping", call.site) = 1
    /\ locals.loops = 3

\* ------------------------------------------------------ weebly_request
\* a weebly_request call has returned, and its request had got a response
Responded ==
    /\ pc = "returned"
    /\ call.fn = "weebly_request"
    /\ call.resp # RequestException

\* the message of the error: action name, API error message and auth name
MessageOfCall ==
    call.action_name \o <<" - ">> \o call.resp.error[1] \o <<" - ">> \o AuthName

\* the message holds one of the caller's expected_errors, or 'Unknown api key'
HoldsExpected ==
    \/ \E i \in 1..Len(call.expected_errors) :
          Contains(MessageOfCall, call.expected_errors[i])
    \/ Contains(MessageOfCall, UnknownApiKey)

\* what a non-200 JSON response makes of: the result, whoever expects what
ErrorResult ==
    [error |-> <<"Error ">> \o call.action_name
                  \o (IF call.resp.error # <<>>
                      THEN <<" - ">> \o call.resp.error[1] ELSE <<>>)]

\* the part of C8 on responses that are not 200
NonOkHandled ==
    (call.resp.is_json /\ call.resp.status_code # 200) =>
        /\ "error" \in DOMAIN rv
        /\ rv = ErrorResult
        /\ call.resp.error # <<>> =>
              log = <<Event(IF HoldsExpected THEN "logger.warning"
                            ELSE "logger.error", 0)>>

\* C8 as stated: a non-200 JSON response yields an 'error' key; the error is
\* logged as a warning exactly when its message holds an expected string, and
\* the result is the same either way; a 200 response yields no 'error' key.
C8_AsStated ==
    Responded =>
        /\ NonOkHandled
        /\ call.resp.status_code = 200 => "error" \notin DOMAIN rv

\* C8, amended: ... a 200 response whose body is JSON yields no 'error' key;
\* a response whose body is not JSON yields the error 'invalid JSON response',
\* whatever its status.
C8_ErrorKeyAndClassification ==
    Responded =>
        /\ NonOkHandled
        /\ (call.resp.is_json /\ call.resp.status_code = 200) => rv = <<>>
        /\ ~call.resp.is_json => rv = [error |-> <<"invalid JSON response">>]

\* C8's case: an error that only the second of the caller's strings makes
\* expected, logged as a warning and returned as an error
C8_Witness ==
    /\ Responded
    /\ call.resp.is_json
    /\ call.resp.status_code # 200
    /\ call.resp.error # <<>>
    /\ Len(call.expected_errors) = 2
    /\ ~Contains(MessageOfCall, UnknownApiKey)
    /\ ~Contains(MessageOfCall, call.expected_errors[1])
    /\ Contains(MessageOfCall, call.expected_errors[2])
    /\ log = <<Event("logger.warning", 0)>>
    /\ "error" \in DOMAIN rv

\* --------------------------------------------- weebly_request_paginated
PaginatedFns ==
    {"weebly_request_paginated", "refresh_pages", "refresh_store_products",
     "refresh_store_categories"}

RefreshFns == PaginatedFns \ {"weebly_request_paginated"}

\* a call that made a paginated fetch has returned
Fetched == pc = "returned" /\ call.fn \in PaginatedFns

\* the limit_count of the call's fetch, and what the fetch returned
LimitOfCall ==
    IF call.fn = "weebly_request_paginated" THEN call.limit_count
    ELSE DefaultLimitCount
FetchResult == IF call.fn = "weebly_request_paginated" THEN rv ELSE call.fetch

\* the requests the call made, in the order it made them
IsRequest(e) == e.ev = "request"
Requests == SelectSeq(log, IsRequest)

\* some request of the call was the one that fails
FailureMet == \E i \in 1..Len(Requests) : Requests[i].id = call.world.fail_at

\* how many items the remote side holds for page i
PageSize(i) ==
    LET rest == Len(call.world.remote) - (i - 1) * LimitOfCall
    IN  IF rest <= 0 THEN 0 ELSE IF rest < LimitOfCall THEN rest ELSE LimitOfCall

\* the table a refresh call works on
TableOfRefresh ==
    CASE call.fn = "refresh_pages" -> pages
      [] call.fn = "refresh_store_products" -> store_products
      [] call.fn = "refresh_store_categories" -> store_categories

\* C9: when no request fails, the requests are for pages 1, 2, 3, .. in this
\* order, all with the same limit; the last one is the first whose page holds
\* fewer than limit items; the result has no error and the items returned are
\* the remote items, each once and in order.
C9_PagesInOrderUntilShort ==
    (Fetched /\ ~FailureMet) =>
        /\ Len(Requests) >= 1
        /\ \A i \in 1..Len(Requests) :
              /\ Requests[i].id = i
              /\ Requests[i].limit = LimitOfCall
              /\ (PageSize(i) < LimitOfCall) <=> (i = Len(Requests))
        /\ FetchResult = <<>>
        /\ call.json_data = call.world.remote

\* C9's case: two full pages and a short one
C9_Witness ==
    /\ Fetched
    /\ ~FailureMet
    /\ Len(Requests) = 3
    /\ PageSize(2) = LimitOfCall
    /\ PageSize(3) > 0

\* C10: when the request for page k fails, it is the last request; the fetch
\* returns the error with the items of pages 1..k-1; a refresh_* call returns
\* that error, leaves its table as it was and does nothing but the requests
\* (no create, update, delete, email or signal).
C10_FailureStopsEverything ==
    (Fetched /\ FailureMet) =>
        /\ Len(Requests) = call.world.fail_at
        /\ \A i \in 1..Len(Requests) : Requests[i].id = i
        /\ "error" \in DOMAIN FetchResult
        /\ call.json_data
              = SubSeq(call.world.remote, 1,
                       (call.world.fail_at - 1) * LimitOfCall)
        /\ call.fn \in RefreshFns =>
              /\ rv = call.fetch
              /\ TableOfRefresh = call.before
              /\ \A i \in 1..Len(log) :
                    log[i].ev \in {"request", "logger.debug", "logger.warning",
                                   "logger.error"}

\* C10's case: refresh_store_categories, asked to signal, holds records the
\* first page would change, and the second request fails
C10_Witness ==
    /\ Fetched
    /\ FailureMet
    /\ call.fn = "refresh_store_categories"
    /\ call.signal_change
    /\ call.world.fail_at = 2
    /\ call.json_data # <<>>
    /\ call.before # {}
    /\ \E i \in 1..Len(call.json_data) :
          \A r \in call.before :
              r.category_id # int(call.json_data[i].category_id)

\* the number of items the remote side holds, N of C11
RemoteCount == Len(call.world.remote)

\* C11: a fetch in which no request fails makes exactly floor(N/L)+1 requests
\* for N remote items and limit L, the last one for an empty page when N is a
\* multiple of L; and whatever the fetch met, every request before the last
\* was answered by a full page, and the last one by a short page or an error.
C11_RequestCount ==
    Fetched =>
        /\ ~FailureMet =>
              /\ Len(Requests) = RemoteCount \div LimitOfCall + 1
              /\ (RemoteCount % LimitOfCall = 0) => PageSize(Len(Requests)) = 0
        /\ \A i \in 1..(Len(Requests) - 1) :
              /\ i # call.world.fail_at
              /\ PageSize(i) = LimitOfCall
        /\ \/ Requests[Len(Requests)].id = call.world.fail_at
           \/ PageSize(Len(Requests)) < LimitOfCall

\* C11's case: a list whose length is a multiple of the limit, fetched in
\* full pages and one empty page at the end
C11_Witness ==
    /\ Fetched
    /\ ~FailureMet
    /\ call.fn = "weebly_request_paginated"
    /\ RemoteCount >= 4
    /\ RemoteCount % LimitOfCall = 0
    /\ Len(Requests) = RemoteCount \div LimitOfCall + 1
    /\ Len(Requests) >= 3

\* ------------------------------------------- WeeblyPaymentNotification
\* a notify_unnotified call has returned; locals holds what each notify() gave
UnnotifiedDone == pc = "returned" /\ call.fn = "notify_unnotified"

\* the payments that were unnotified when the call began, and those that are now
UnnotifiedBefore ==
    {pk \in 1..Len(call.before) : ~call.before[pk].notified_to_weebly}
UnnotifiedNow == {pk \in 1..Len(payments) : ~payments[pk].notified_to_weebly}

\* the payments whose notify() returned an error
AttemptsWithError ==
    {locals[i].pk : i \in {j \in 1..Len(locals) : "error" \in DOMAIN locals[j].rv}}

\* every payment that needs a request got one sent, and it was answered OK
EveryRequestSucceeds ==
    \A pk \in UnnotifiedBefore :
        call.before[pk].gross_amount.n # 0 =>
            /\ EventCount("payment request", pk) = 1
            /\ call.resps[pk] = OkResponse

\* C12: notify_unnotified calls notify() once on every payment that was
\* unnotified, whatever the earlier ones returned, and on no other; when it
\* returns, the unnotified payments are the ones whose notify() returned an
\* error; if every request was answered without error, none is left.
C12_UnnotifiedAreTheFailed ==
    UnnotifiedDone =>
        /\ EventIds("notify") = UnnotifiedBefore
        /\ \A pk \in UnnotifiedBefore : EventCount("notify", pk) = 1
        /\ Len(locals) = Cardinality(UnnotifiedBefore)
        /\ UnnotifiedNow = AttemptsWithError
        /\ EveryRequestSucceeds => UnnotifiedNow = {}

\* C12's case: the first payment's request fails, the second one's succeeds
C12_Witness ==
    /\ UnnotifiedDone
    /\ UnnotifiedBefore = {1, 2}
    /\ UnnotifiedNow = {1}
    /\ EventCount("payment request", 1) = 1
    /\ EventCount("payment request", 2) = 1

\* a notify() call has returned
NotifyDone == pc = "returned" /\ call.fn = "notify"

\* the payment of the call, as it was before the call
PaymentBefore == call.before[call.pk]

\* every other payment is as it was
OthersAsBefore ==
    /\ Len(payments) = Len(call.before)
    /\ \A k \in 1..Len(payments) : k # call.pk => payments[k] = call.before[k]

\* notify() had an auth to send the request with: the site's, or the default
AuthAtHand == call.is_valid \/ call.default_auth # <<>>

\* C13: notify() on an unnotified payment of non-zero amount: when its request
\* is answered without error it returns no error and the payment is notified,
\* with the time of the call; otherwise it returns an error and the payment is
\* as it was, nothing is saved, and the payment is still among those
\* notify_unnotified will try.
C13_NotifiedIffRequestOk ==
    (NotifyDone /\ ~PaymentBefore.notified_to_weebly
                /\ PaymentBefore.gross_amount.n # 0) =>
        /\ EventCount("payment request", call.pk) = IF AuthAtHand THEN 1 ELSE 0
        /\ OthersAsBefore
        /\ ("error" \notin DOMAIN rv) <=> (AuthAtHand /\ call.resp = OkResponse)
        /\ ("error" \notin DOMAIN rv) <=> payments[call.pk].notified_to_weebly
        /\ "error" \notin DOMAIN rv =>
              /\ rv = <<>>
              /\ payments[call.pk]
                   = [PaymentBefore EXCEPT !.notified_to_weebly = TRUE,
                                           !.notified_to_weebly_on = timezone_now]
              /\ EventCount("save", call.pk) = 1
        /\ "error" \in DOMAIN rv =>
              /\ payments = call.before
              /\ EventCount("save", call.pk) = 0
              /\ \E i \in 1..Len(unnotified(payments)) :
                    unnotified(payments)[i] = call.pk

\* C13's case: the site's auth is not valid, the request goes out with the
\* default auth and is answered OK
C13_Witness ==
    /\ NotifyDone
    /\ ~PaymentBefore.notified_to_weebly
    /\ PaymentBefore.gross_amount.n # 0
    /\ ~call.is_valid
    /\ "error" \notin DOMAIN rv
    /\ payments[call.pk].notified_to_weebly_on = timezone_now

\* the requests of a call for payment pk that were answered OK
Succeeded(pk) ==
    IF EventCount("payment request", pk) = 0 THEN 0
    ELSE IF call.fn = "notify" /\ call.resp = OkResponse THEN 1
    ELSE IF call.fn = "notify_unnotified" /\ call.resps[pk] = OkResponse THEN 1
    ELSE 0

\* a step that is a whole notify() or notify_unnotified() call
NotifyStep ==
    /\ pc = "idle"
    /\ pc' = "returned"
    /\ call'.fn \in {"notify", "notify_unnotified"}

\* C14: notify() on a notified payment returns an error, sends no request
\* and leaves everything as it was; no step takes notified_to_weebly from
\* true to false; a call sends at most one request for a payment, and one that
\* is answered OK only for a payment that was unnotified and is notified
\* afterwards: so at most one request for a payment ever succeeds.
C14_NotifiedOnce ==
    [][/\ \A pk \in 1..Len(payments) :
             payments[pk].notified_to_weebly =>
                 /\ pk <= Len(payments')
                 /\ payments'[pk].notified_to_weebly
       /\ NotifyStep =>
             \A pk \in 1..Len(payments) :
                 /\ EventCount("payment request", pk)' <= 1
                 /\ Succeeded(pk)' = 1 =>
                       /\ ~payments[pk].notified_to_weebly
                       /\ payments'[pk].notified_to_weebly
                 /\ payments[pk].notified_to_weebly =>
                       /\ EventCount("payment request", pk)' = 0
                       /\ payments'[pk] = payments[pk]
       /\ (NotifyStep /\ call'.fn = "notify"
                      /\ payments[call'.pk].notified_to_weebly) =>
             /\ "error" \in DOMAIN rv'
             /\ payments' = payments
             /\ is_valid' = is_valid
             /\ default_auth' = default_auth
             /\ \A i \in 1..Len(log') : log'[i].ev = "logger.error"
      ]_vars

\* C14's case: notify() on a payment that a request had notified returned an
\* error
C14_Witness ==
    /\ NotifyDone
    /\ PaymentBefore.notified_to_weebly
    /\ PaymentBefore.notified_to_weebly_on = timezone_now
    /\ call.resp = OkResponse
    /\ "error" \in DOMAIN rv

\* C15: every stored payment has a payable_amount of two decimals that is 30%
\* of its gross_amount to the nearest cent; after a save it is so whatever
\* payable_amount the saved instance carried.
C15_PayableIs30Percent ==
    \A pk \in 1..Len(payments) :
        /\ payments[pk].payable_amount # <<>>
        /\ payments[pk].payable_amount[1].exp = 2
        /\ 100 * payments[pk].payable_amount[1].n
              - 30 * payments[pk].gross_amount.n \in -50..50

\* C15's case: a payment saved with another gross_amount and a payable_amount
\* that is not 30% of it
C15_Witness ==
    /\ pc = "returned"
    /\ call.fn = "save"
    /\ call.instance.gross_amount = Decimal(15, 2)
    /\ call.instance.payable_amount = <<Decimal(7, 2)>>
    /\ payments[call.pk].payable_amount # call.instance.payable_amount

\* C19: notify() on an unnotified payment of amount 0 sends no request,
\* returns a result without error, and saves the payment as notified with
\* notified_to_weebly_on still unset; nothing else changes.
C19_ZeroMarkedWithoutRequest ==
    (NotifyDone /\ ~PaymentBefore.notified_to_weebly
                /\ PaymentBefore.gross_amount.n = 0) =>
        /\ EventCount("payment request", call.pk) = 0
        /\ rv = <<>>
        /\ payments[call.pk] = [PaymentBefore EXCEPT !.notified_to_weebly = TRUE]
        /\ payments[call.pk].notified_to_weebly_on = <<>>
        /\ EventCount("save", call.pk) = 1
        /\ OthersAsBefore
        /\ is_valid = call.is_valid
        /\ default_auth = call.default_auth

\* C19's case: a payment of amount 0 marked while no auth could send a request
C19_Witness ==
    /\ NotifyDone
    /\ ~PaymentBefore.notified_to_weebly
    /\ PaymentBefore.gross_amount.n = 0
    /\ ~AuthAtHand
    /\ payments[call.pk].notified_to_weebly

\* ------------------------------------------------- WeeblyAuth.is_valid
\* a step that is a whole weebly_request call
RequestStep == pc = "idle" /\ pc' = "returned" /\ call'.fn = "weebly_request"

\* the response is an error of the API whose message holds 'Unknown api key'
UnknownApiKeyError(resp) ==
    /\ resp # RequestException
    /\ resp.is_json
    /\ resp.status_code # 200
    /\ resp.error # <<>>
    /\ Contains(resp.error[1], UnknownApiKey)

\* C16: in every weebly_request call of every sequence of calls, is_valid
\* afterwards is true when the response was a 200 with a JSON body, false
\* when it was an error whose message holds 'Unknown api key', and what it
\* was before in every other case (another error, a body that is not JSON, a
\* raised network exception).
C16_IsValidFollowsResponse ==
    [][RequestStep =>
          is_valid' =
             IF /\ call'.resp # RequestException
                /\ call'.resp.is_json
                /\ call'.resp.status_code = 200
             THEN TRUE
             ELSE IF UnknownApiKeyError(call'.resp) THEN FALSE
             ELSE is_valid]_vars

\* C16's case: a call whose request raised left the auth invalid, as an
\* earlier call's 'Unknown api key' had made it
C16_Witness ==
    /\ pc = "returned"
    /\ call.fn = "weebly_request"
    /\ call.resp = RequestException
    /\ ~is_valid

\* ------------------------------ update_object_from_data, update_from_data
\* an update_object_from_data call has returned; locals is what it returned
ObjectUpdated == pc = "returned" /\ call.fn = "update_object_from_data"

\* refresh_site has returned and had called update_from_data; locals[1] is
\* what that returned
SiteUpdated == pc = "returned" /\ call.fn = "refresh_site" /\ locals # <<>>

\* the attributes a mapping names
MappedAttrs(mapping) == {mapping[i][2] : i \in 1..Len(mapping)}

\* the transformed remote value of the mapping's entry m
Transformed(m) ==
    transform_func(m[3], call.data[m[1]], call.obj.site, call.before).val
SiteTransformed(m) ==
    IF Len(m) >= 3
    THEN mapping_fn(m[3], call.resp.data[m[1]], call.site, call.users).val
    ELSE call.resp.data[m[1]]

\* C17: update_object_from_data and update_from_data return true exactly when
\* some mapped attribute differed from its transformed remote value before
\* the call; in the object they return every mapped attribute has the
\* transformed remote value and every other attribute its old value; the call
\* of update_object_from_data writes no table.
C17_ChangedIffDiffered ==
    /\ ObjectUpdated =>
          /\ locals.save <=>
                \E i \in 1..Len(PagesMapping) :
                    call.obj[PagesMapping[i][2]] # Transformed(PagesMapping[i])
          /\ \A i \in 1..Len(PagesMapping) :
                locals.obj[PagesMapping[i][2]] = Transformed(PagesMapping[i])
          /\ \A a \in DOMAIN call.obj \ MappedAttrs(PagesMapping) :
                locals.obj[a] = call.obj[a]
          /\ pages = call.before
          /\ log = <<>>
    /\ SiteUpdated =>
          /\ locals[1].changed <=>
                \E i \in 1..Len(SiteMapping) :
                    call.site[SiteMapping[i][2]] # SiteTransformed(SiteMapping[i])
          /\ \A i \in 1..Len(SiteMapping) :
                locals[1].obj[SiteMapping[i][2]] = SiteTransformed(SiteMapping[i])
          /\ \A a \in DOMAIN call.site \ MappedAttrs(SiteMapping) :
                locals[1].obj[a] = call.site[a]

\* C17's case: a page, while others are stored, that differs from the remote
\* data in its first mapped attribute and not in its last
C17_Witness ==
    /\ ObjectUpdated
    /\ call.before # {}
    /\ call.obj.title # Transformed(PagesMapping[1])
    /\ call.obj.parent_id = Transformed(PagesMapping[4])
    /\ locals.save

\* ----------------------------------------------------------- refresh_site
SiteRefreshed == pc = "returned" /\ call.fn = "refresh_site"

\* the response was a 200 with a JSON body
SiteOk ==
    /\ call.resp # RequestException
    /\ call.resp.is_json
    /\ call.resp.status_code = 200

\* the response was an error whose message holds 'Site not found'
SiteNotFoundError ==
    /\ call.resp # RequestException
    /\ call.resp.is_json
    /\ call.resp.status_code # 200
    /\ call.resp.error # <<>>
    /\ Contains(call.resp.error[1], SiteNotFound)

\* C18: after refresh_site, is_found is true when the response was
\* successful, false when it was an error holding 'Site not found', and what
\* it was after any other error; the site is saved once and the change signal
\* sent once when the site's row differs from what it was (a mapped field or
\* is_found changed), and neither happens when it does not.
C18_FoundAndSavedOnChange ==
    SiteRefreshed =>
        /\ weebly_site.is_found =
              IF SiteOk THEN TRUE
              ELSE IF SiteNotFoundError THEN FALSE
              ELSE call.site.is_found
        /\ ~SiteOk => \A a \in DOMAIN weebly_site \ {"is_found"} :
                          weebly_site[a] = call.site[a]
        /\ EventCount("save", 0) = IF weebly_site # call.site THEN 1 ELSE 0
        /\ EventCount("signal_change", 0) = IF weebly_site # call.site THEN 1 ELSE 0

\* C18's case: a site that had been reported missing is found again, with
\* the fields it had: only is_found changes, and the site is saved
C18_Witness ==
    /\ SiteRefreshed
    /\ SiteOk
    /\ ~call.site.is_found
    /\ \A a \in DOMAIN weebly_site \ {"is_found"} : weebly_site[a] = call.site[a]
    /\ call.site.user # <<>>
    /\ EventCount("save", 0) = 1

====
